---- MODULE Spec2Model ----
(***************************************************************************)
(* Model of the authenticated data-access and audit-trail subsystem of the *)
(* CRM server: src/server/routes.ts (route handlers, guards, passport      *)
(* strategy, DatabaseStorage) over the tables of src/unnamed/part_000.     *)
(*                                                                         *)
(* A request is a record in reqs.  Its pc names the store call the handler *)
(* is awaiting; one action is that store call together with the            *)
(* synchronous continuation of the handler up to its next await.  Requests *)
(* interleave freely at the awaits, as on the node event loop over a       *)
(* shared Postgres store.                                                  *)
(***************************************************************************)
EXTENDS Integers, Sequences, FiniteSets, TLC

VARIABLES
  admins,        \* admins table: id -> row
  clients,       \* clients table: id -> row
  interactions,  \* interactions table: id -> row
  auditLogs,     \* audit_logs table, in insertion order
  sessions,      \* session store: cookie -> passport user (NoUser if none)
  loggedOut,     \* history: cookie -> logged out and not logged in since
  reqs,          \* the requests received, in arrival order
  serial,        \* the serial id sequences of the tables
  clock,         \* store time; advances with every committed write
  budget         \* requests still to be received in this run

vars == <<admins, clients, interactions, auditLogs, sessions, loggedOut,
          reqs, serial, clock, budget>>

(***************************************************************************)
(* Bounds and input domains                                                *)
(***************************************************************************)
MaxRequests == 2

MaxAuthRequests == 3

MaxAdminRequests == 2

MaxFieldRequests == 2

MaxBootRequests == 3

MaxListRequests == 3

MaxOwnerRequests == 2

MaxAuditRequests == 3

\* the wall clock is followed up to this time
MaxClock == 6

\* request numbers, enough for every specification
ReqIds == 1..(MaxRequests + MaxAuthRequests)

Cookies == {"c1", "c2"}

\* the cookies that resolve to a session in InitStore
SessionCookies == {"c1"}

\* ids in the URL: a stored row, and rows that may or may not exist
TargetIds == {1}

DeleteClientIds == {1, 2}

AdminTargetIds == {2, 3}

ClientCreateBodies ==
  { [email |-> "a@x.com", phone |-> "111", createdBy |-> 2],
    [email |-> "a@x.com"] }

ClientUpdateBodies == { [email |-> "b@x.com"], [phone |-> "222"] }

InteractionCreateBodies ==
  { [type |-> "call", title |-> "t1", description |-> "d"],
    [title |-> "t1", description |-> "d"] }

InteractionUpdateBodies == { [title |-> "t2"], [clientId |-> 2] }

AdminCreateBodies ==
  { [username |-> "carol", password |-> "secret1", role |-> "user"],
    [username |-> "admin", password |-> "secret1"] }

AdminUpdateBodies == { [active |-> FALSE, password |-> "newpass1"] }

AuthAdminCreateBodies == { [username |-> "al", password |-> "secret1"] }

\* partial updates of an admin: a taken username, an empty and a non-empty
\* password, and a change that names no password
AdminPutBodies ==
  { [username |-> "admin"], [password |-> ""],
    [password |-> "newpass1", active |-> FALSE], [role |-> "admin"] }

\* bodies that name fields the server is to set itself, and invalid ones
FieldClientCreateBodies ==
  { [email |-> "a@x.com", phone |-> "111", createdBy |-> 2],
    [email |-> "not-an-email", phone |-> "111"] }

FieldClientUpdateBodies ==
  { [email |-> "b@x.com"], [phone |-> "222", updatedAt |-> 0],
    [email |-> "not-an-email"] }

FieldInteractionCreateBodies ==
  { [type |-> "call", title |-> "t1", description |-> "d", clientId |-> 2, createdBy |-> 2],
    [type |-> "bogus", title |-> "t1", description |-> "d"] }

FieldInteractionUpdateBodies == { [title |-> "t2", updatedAt |-> 0] }

BootTargetIds == {1}

\* deactivation with a new password, and demotion
BootUpdateBodies == AdminUpdateBodies \cup { [role |-> "user"] }

OwnerClientUpdateBodies == { [createdBy |-> 2, updatedAt |-> 0] }

OwnerInteractionUpdateBodies == { [clientId |-> 2, createdBy |-> 2] }

ListCreateBodies == { [email |-> "a@x.com", phone |-> "111"] }

ListUpdateBodies == { [phone |-> "222"] }

AdminLoginBodies == { [username |-> "admin", password |-> "admin123"] }

LoginBodies ==
  { [username |-> "admin", password |-> "admin123"],
    [username |-> "admin", password |-> "wrong99"],
    [username |-> "bob", password |-> "secret1"],
    [username |-> "al", password |-> "secret1"],
    [username |-> "nobody", password |-> "secret1"] }

(***************************************************************************)
(* Values                                                                  *)
(***************************************************************************)
\* req.user when the session carries no passport user
NoUser == [id |-> 0, username |-> "", role |-> ""]

\* bcrypt.hash: a one-way image of the plaintext, never the plaintext
Hash(plain) == "$2b$10$" \o plain

validatePassword(plainPassword, hashedPassword) == hashedPassword = Hash(plainPassword)

\* the user object the LocalStrategy hands to done()
Identity(admin) == [id |-> admin.id, username |-> admin.username, role |-> admin.role]

\* UPDATE ... SET data: the columns named in data replace the row's
Merge(row, data) ==
  [f \in DOMAIN row |-> IF f \in DOMAIN data THEN data[f] ELSE row[f]]

\* z.object(...).parse keeps the schema's keys and drops the others
Strip(body, keys) == [f \in (DOMAIN body) \cap keys |-> body[f]]

Without(table, ids) == [i \in (DOMAIN table) \ ids |-> table[i]]

(***************************************************************************)
(* Schemas (src/unnamed/part_000)                                          *)
(***************************************************************************)
interactionTypeEnum == {"call", "email", "meeting", "note", "other"}

InsertClientKeys == {"email", "phone", "createdBy"}

insertClientSchema(body) == {"email", "phone"} \subseteq DOMAIN body

InsertInteractionKeys == {"clientId", "type", "title", "description", "createdBy"}

insertInteractionSchema(body) ==
  /\ {"clientId", "type", "title", "description"} \subseteq DOMAIN body
  /\ body.type \in interactionTypeEnum

InsertAdminKeys == {"username", "password", "role", "active"}

insertAdminSchema(body) == {"username", "password"} \subseteq DOMAIN body

loginSchema(body) == Len(body.username) >= 3 /\ Len(body.password) >= 6

\* column defaults of the tables
ClientDefaults == [id |-> 0, email |-> "", phone |-> "", createdBy |-> 0,
                   createdAt |-> 0, updatedAt |-> 0]

InteractionDefaults == [id |-> 0, clientId |-> 0, type |-> "", title |-> "",
                        description |-> "", createdBy |-> 0,
                        createdAt |-> 0, updatedAt |-> 0]

AdminDefaults == [id |-> 0, username |-> "", password |-> "", role |-> "user",
                  active |-> TRUE, lastLogin |-> 0]

\* references(() => admins.id) on a nullable column: 0 stands for NULL
AdminFK(adminTable, ref) == ref = 0 \/ ref \in DOMAIN adminTable

\* interactions.clientId notNull references clients.id
ClientFK(clientTable, ref) == ref \in DOMAIN clientTable

(***************************************************************************)
(* DatabaseStorage (src/server/routes.ts 567-725).  A select yields the    *)
(* set of matching rows; a write yields the new table(s) and whether the   *)
(* statement raised an error (constraint violation).                       *)
(***************************************************************************)
getAdminByUsername(adminTable, username) ==
  {adminTable[i] : i \in {j \in DOMAIN adminTable : adminTable[j].username = username}}

getClient(clientTable, id) ==
  IF id \in DOMAIN clientTable THEN {clientTable[id]} ELSE {}

getInteraction(interactionTable, id) ==
  IF id \in DOMAIN interactionTable THEN {interactionTable[id]} ELSE {}

listInteractionsByClient(interactionTable, clientId) ==
  {interactionTable[i] : i \in {j \in DOMAIN interactionTable : interactionTable[j].clientId = clientId}}

\* ORDER BY key DESC: every order of the rows in which key never increases;
\* the store leaves the order of rows with equal keys open
RECURSIVE OrderByDesc(_, _)
OrderByDesc(rows, key) ==
  IF rows = {} THEN {<<>>}
  ELSE UNION { { <<x>> \o rest : rest \in OrderByDesc(rows \ {x}, key) } :
               x \in {y \in rows : \A z \in rows : y[key] >= z[key]} }

\* LIMIT n
Limit(rowSeq, n) == SubSeq(rowSeq, 1, IF Len(rowSeq) < n THEN Len(rowSeq) ELSE n)

\* the default of the limit parameter of listClients and listAuditLogs
DefaultLimit == 100

Rows(table) == {table[k] : k \in DOMAIN table}

\* storage.listClients: the results the store may return
listClients(clientTable, limit) ==
  {Limit(rowSeq, limit) : rowSeq \in OrderByDesc(Rows(clientTable), "updatedAt")}

\* listAuditLogs with the oldest row first
listAuditLogsOldestFirst(logs, limit) ==
  {Limit([i \in 1..Len(rowSeq) |-> rowSeq[Len(rowSeq) + 1 - i]], limit) :
     rowSeq \in OrderByDesc(Rows(logs), "createdAt")}

\* storage.listAuditLogs: the results the store may return
listAuditLogs(logs, limit) ==
  {Limit(rowSeq, limit) : rowSeq \in OrderByDesc(Rows(logs), "createdAt")}

\* storage.getClientAuditLogs
getClientAuditLogs(logs, clientId) ==
  OrderByDesc({row \in Rows(logs) : row.entityType = "client" /\ row.entityId = clientId},
              "createdAt")

createClient(clientTable, adminTable, id, insertClient, now) ==
  LET row == [Merge(ClientDefaults, insertClient) EXCEPT
                !.id = id, !.createdAt = now, !.updatedAt = now]
  IN IF AdminFK(adminTable, row.createdBy)
       THEN [error |-> FALSE, clients |-> clientTable @@ (id :> row)]
       ELSE [error |-> TRUE, clients |-> clientTable]

updateClientReplacesRow(clientTable, adminTable, id, clientData, ts) ==
  IF id \notin DOMAIN clientTable
    THEN [error |-> FALSE, found |-> FALSE, clients |-> clientTable]
    ELSE [error |-> FALSE, found |-> TRUE,
          clients |-> [clientTable EXCEPT ![id] =
            [Merge([ClientDefaults EXCEPT !.id = id, !.createdBy = clientTable[id].createdBy,
                                          !.createdAt = clientTable[id].createdAt],
                   clientData) EXCEPT !.updatedAt = ts]]]

\* UPDATE clients SET ...clientData, updated_at = new Date() WHERE id = $1:
\* one statement on the stored row
updateClient(clientTable, adminTable, id, clientData, ts) ==
  IF id \notin DOMAIN clientTable
    THEN [error |-> FALSE, found |-> FALSE, clients |-> clientTable]
    ELSE LET row == [Merge(clientTable[id], clientData) EXCEPT !.updatedAt = ts]
         IN IF AdminFK(adminTable, row.createdBy)
              THEN [error |-> FALSE, found |-> TRUE,
                    clients |-> [clientTable EXCEPT ![id] = row]]
              ELSE [error |-> TRUE, found |-> FALSE, clients |-> clientTable]

deleteClientNoCascade(clientTable, interactionTable, id) ==
  [deleted |-> id \in DOMAIN clientTable,
   clients |-> Without(clientTable, {id}),
   interactions |-> interactionTable]

\* a delete that reports a removed row whether or not one matched
deleteClientAlwaysReports(clientTable, interactionTable, id) ==
  [deleted |-> TRUE,
   clients |-> Without(clientTable, {id}),
   interactions |->
     Without(interactionTable,
             {i \in DOMAIN interactionTable : interactionTable[i].clientId = id})]

\* DELETE FROM clients WHERE id = $1 RETURNING id, with the ON DELETE CASCADE
\* of interactions.client_id applied by the same statement
deleteClient(clientTable, interactionTable, id) ==
  [deleted |-> id \in DOMAIN clientTable,
   clients |-> Without(clientTable, {id}),
   interactions |->
     Without(interactionTable,
             {i \in DOMAIN interactionTable : interactionTable[i].clientId = id})]

createInteractionUnchecked(interactionTable, clientTable, adminTable, id, insertInteraction, now) ==
  [error |-> FALSE,
   interactions |-> interactionTable @@
     (id :> [Merge(InteractionDefaults, insertInteraction) EXCEPT
               !.id = id, !.createdAt = now, !.updatedAt = now])]

createInteraction(interactionTable, clientTable, adminTable, id, insertInteraction, now) ==
  LET row == [Merge(InteractionDefaults, insertInteraction) EXCEPT
                !.id = id, !.createdAt = now, !.updatedAt = now]
  IN IF ClientFK(clientTable, row.clientId) /\ AdminFK(adminTable, row.createdBy)
       THEN [error |-> FALSE, interactions |-> interactionTable @@ (id :> row)]
       ELSE [error |-> TRUE, interactions |-> interactionTable]

updateInteractionKeepsInputStamp(interactionTable, clientTable, adminTable, id, interactionData, ts) ==
  IF id \notin DOMAIN interactionTable
    THEN [error |-> FALSE, found |-> FALSE, interactions |-> interactionTable]
    ELSE [error |-> FALSE, found |-> TRUE,
          interactions |-> [interactionTable EXCEPT ![id] =
            Merge([interactionTable[id] EXCEPT !.updatedAt = ts], interactionData)]]

updateInteraction(interactionTable, clientTable, adminTable, id, interactionData, ts) ==
  IF id \notin DOMAIN interactionTable
    THEN [error |-> FALSE, found |-> FALSE, interactions |-> interactionTable]
    ELSE LET row == [Merge(interactionTable[id], interactionData) EXCEPT !.updatedAt = ts]
         IN IF ClientFK(clientTable, row.clientId) /\ AdminFK(adminTable, row.createdBy)
              THEN [error |-> FALSE, found |-> TRUE,
                    interactions |-> [interactionTable EXCEPT ![id] = row]]
              ELSE [error |-> TRUE, found |-> FALSE, interactions |-> interactionTable]

deleteInteraction(interactionTable, id) ==
  [deleted |-> id \in DOMAIN interactionTable,
   interactions |-> Without(interactionTable, {id})]

UsernameNeverTaken(adminTable, username, exceptId) == FALSE

\* admins.username is unique()
UsernameTaken(adminTable, username, exceptId) ==
  \E i \in DOMAIN adminTable : i # exceptId /\ adminTable[i].username = username

createAdmin(adminTable, id, insertAdmin) ==
  LET row == [Merge(AdminDefaults, insertAdmin) EXCEPT
                !.id = id, !.password = Hash(insertAdmin.password)]
  IN IF UsernameTaken(adminTable, row.username, id)
       THEN [error |-> TRUE, admins |-> adminTable]
       ELSE [error |-> FALSE, admins |-> adminTable @@ (id :> row)]

updateAdmin(adminTable, id, adminData) ==
  LET data == IF "password" \in DOMAIN adminData /\ adminData.password # ""
                THEN [f \in DOMAIN adminData |->
                        IF f = "password" THEN Hash(adminData.password) ELSE adminData[f]]
                ELSE adminData
  IN IF id \notin DOMAIN adminTable
       THEN [error |-> FALSE, found |-> FALSE, admins |-> adminTable]
       ELSE LET row == Merge(adminTable[id], data)
            IN IF UsernameTaken(adminTable, row.username, id)
                 THEN [error |-> TRUE, found |-> FALSE, admins |-> adminTable]
                 ELSE [error |-> FALSE, found |-> TRUE,
                       admins |-> [adminTable EXCEPT ![id] = row]]

updateLastLogin(adminTable, id, now) ==
  IF id \in DOMAIN adminTable
    THEN [adminTable EXCEPT ![id].lastLogin = now]
    ELSE adminTable

storageCreateAuditLogPerEntity(logs, insertLog, now) ==
  LET kept == SelectSeq(logs, LAMBDA l : l.entityType # insertLog.entityType
                                          \/ l.entityId # insertLog.entityId)
  IN Append(kept, [id |-> Len(logs) + 1, adminId |-> insertLog.adminId,
                   entityType |-> insertLog.entityType, entityId |-> insertLog.entityId,
                   action |-> insertLog.action, createdAt |-> now, req |-> insertLog.req])

\* DatabaseStorage.createAuditLog: one row appended to audit_logs
storageCreateAuditLog(logs, insertLog, now) ==
  Append(logs, [id |-> Len(logs) + 1, adminId |-> insertLog.adminId,
                entityType |-> insertLog.entityType, entityId |-> insertLog.entityId,
                action |-> insertLog.action, createdAt |-> now, req |-> insertLog.req])

(***************************************************************************)
(* Requests                                                                *)
(***************************************************************************)
NoMutation == [entityType |-> "", entityId |-> 0, action |-> ""]

\* ghost: the row change the store applied for request q
Wrote(q, entityType, entityId, action) ==
  [q EXCEPT !.mutation = [entityType |-> entityType, entityId |-> entityId, action |-> action]]

\* ghost: the admin row of a session user is gone, inactive, or has another
\* role than the session carries
Stale(user) ==
  /\ user # NoUser
  /\ \/ user.id \notin DOMAIN admins
     \/ ~admins[user.id].active
     \/ admins[user.id].role # user.role

\* ghost: the write of request q matched no row
Missed(q) == [q EXCEPT !.missed = TRUE]

\* the session middleware and passport.session() resolve the cookie to
\* req.user before any route code runs
\* a deserializer that looks the session user up in the admins table
deserializeUserRereads(user) ==
  IF user = NoUser \/ user.id \notin DOMAIN admins THEN NoUser
  ELSE IF ~admins[user.id].active THEN NoUser
  ELSE Identity(admins[user.id])

\* passport.deserializeUser: req.user is the object serialized at login
deserializeUser(user) == user

NewReq(kind, c, id, body) ==
  [kind |-> kind, pc |-> "start", cookie |-> c, user |-> deserializeUser(sessions[c]),
   id |-> id, body |-> body, ts |-> 0, status |-> 0, message |-> "",
   steps |-> <<>>, wroteAt |-> 0, auditFailed |-> FALSE,
   verified |-> NoUser, cause |-> "", validCreds |-> FALSE,
   mutation |-> NoMutation,
   afterLogout |-> loggedOut[c], json |-> {}, raw |-> body,
   missed |-> FALSE, list |-> <<>>, stale |-> Stale(sessions[c])]

Step(q, name) == [q EXCEPT !.steps = Append(@, name)]

Await(q, call) == [q EXCEPT !.pc = call]

\* res.status(status).json(...): the handler is finished
Respond(q, status) ==
  [q EXCEPT !.pc = "done", !.status = status, !.steps = Append(@, "respond")]

\* the admin or identity objects the handler passes to res.json
Json(q, objects) == [q EXCEPT !.json = objects]

RequireAuthOpen(user) == 0

\* 0 stands for next()
requireAuth(user) == IF user = NoUser THEN 401 ELSE 0

requireAdminAnyRole(user) == IF user = NoUser THEN 401 ELSE 0

requireAdmin(user) ==
  IF user = NoUser THEN 401
  ELSE IF user.role # "admin" THEN 403
  ELSE 0

\* what each mutating route passes to createAuditLog and answers on success
Route(kind) ==
  CASE kind = "POST /api/clients" ->
         [entityType |-> "client", action |-> "create", status |-> 201]
    [] kind = "PUT /api/clients/:id" ->
         [entityType |-> "client", action |-> "update", status |-> 200]
    [] kind = "DELETE /api/clients/:id" ->
         [entityType |-> "client", action |-> "delete", status |-> 200]
    [] kind = "POST /api/clients/:clientId/interactions" ->
         [entityType |-> "interaction", action |-> "create", status |-> 201]
    [] kind = "PUT /api/interactions/:id" ->
         [entityType |-> "interaction", action |-> "update", status |-> 200]
    [] kind = "DELETE /api/interactions/:id" ->
         [entityType |-> "interaction", action |-> "delete", status |-> 200]
    [] kind = "POST /api/admins" ->
         [entityType |-> "admin", action |-> "create", status |-> 201]
    [] kind = "PUT /api/admins/:id" ->
         [entityType |-> "admin", action |-> "update", status |-> 200]

MutatingKinds ==
  {"POST /api/clients", "PUT /api/clients/:id", "DELETE /api/clients/:id",
   "POST /api/clients/:clientId/interactions", "PUT /api/interactions/:id",
   "DELETE /api/interactions/:id", "POST /api/admins", "PUT /api/admins/:id"}

RespondBeforeAudit(q, id, now) ==
  [q EXCEPT !.pc = "createAuditLog", !.id = id, !.wroteAt = now,
            !.status = Route(q.kind).status,
            !.steps = @ \o <<"persist", "respond">>]

\* the handler resumes after its data write and calls createAuditLog
OnPersisted(q, id, now) ==
  [q EXCEPT !.pc = "createAuditLog", !.id = id, !.wroteAt = now,
            !.steps = Append(@, "persist")]

\* a request is received once registerRoutes has returned: the default
\* admin check is awaited before the server listens
Enqueue(q) ==
  /\ \A r \in 1..Len(reqs) : reqs[r].kind = "bootstrap" => reqs[r].pc = "done"
  /\ budget > 0
  /\ budget' = budget - 1
  /\ reqs' = Append(reqs, q)

Pending(r, call) == r \in 1..Len(reqs) /\ reqs[r].pc = call

SetReq(r, q) == reqs' = [reqs EXCEPT ![r] = q]

(***************************************************************************)
(* Client routes                                                           *)
(***************************************************************************)
\* POST /api/clients up to the await of storage.createClient
PostClients(c, body) ==
  LET q == NewReq("POST /api/clients", c, 0, body)
      guard == requireAuth(q.user)
  IN /\ Enqueue(
          IF guard # 0 THEN Respond(q, guard)
          ELSE IF ~insertClientSchema(body) THEN Respond(Step(q, "validate"), 400)
          ELSE IF q.user = NoUser THEN Respond(Step(q, "validate"), 500)
          ELSE Await([Step(q, "validate") EXCEPT
                        !.body = [createdBy |-> q.user.id] @@ Strip(body, InsertClientKeys)],
                     "createClient"))
     /\ UNCHANGED <<admins, clients, interactions, auditLogs, sessions, loggedOut, serial, clock>>

AwaitCreateClient(r) ==
  /\ Pending(r, "createClient")
  /\ LET q == reqs[r]
         id == serial.clients + 1
         res == createClient(clients, admins, id, q.body, clock + 1)
     IN /\ serial' = [serial EXCEPT !.clients = id]
        /\ clients' = res.clients
        /\ IF res.error
             THEN SetReq(r, Respond(q, 500)) /\ clock' = clock
             ELSE SetReq(r, Wrote(OnPersisted(q, id, clock + 1), "client", id, "create")) /\ clock' = clock + 1
  /\ UNCHANGED <<admins, interactions, auditLogs, sessions, loggedOut, budget>>

\* PUT /api/clients/:id, DELETE /api/clients/:id up to the await of getClient
PutClient(c, id, body) ==
  LET q == NewReq("PUT /api/clients/:id", c, id, body)
      guard == requireAuth(q.user)
  IN /\ Enqueue(IF guard # 0 THEN Respond(q, guard) ELSE Await(q, "getClient"))
     /\ UNCHANGED <<admins, clients, interactions, auditLogs, sessions, loggedOut, serial, clock>>

DeleteClient(c, id) ==
  LET q == NewReq("DELETE /api/clients/:id", c, id, <<>>)
      guard == requireAuth(q.user)
  IN /\ Enqueue(IF guard # 0 THEN Respond(q, guard) ELSE Await(q, "getClient"))
     /\ UNCHANGED <<admins, clients, interactions, auditLogs, sessions, loggedOut, serial, clock>>

PostInteractions(c, clientId, body) ==
  LET q == NewReq("POST /api/clients/:clientId/interactions", c, clientId, body)
      guard == requireAuth(q.user)
  IN /\ Enqueue(IF guard # 0 THEN Respond(q, guard) ELSE Await(q, "getClient"))
     /\ UNCHANGED <<admins, clients, interactions, auditLogs, sessions, loggedOut, serial, clock>>

AfterGetClientTrustsBody(q, rows) ==
  IF rows = {} THEN Respond(q, 404)
  ELSE CASE q.kind = "PUT /api/clients/:id" ->
              Await([q EXCEPT !.ts = clock + 1], "updateClient")
         [] q.kind = "DELETE /api/clients/:id" ->
              Await(q, "deleteClient")
         [] q.kind = "GET /api/clients/:clientId/audit-logs" ->
              Await(q, "getClientAuditLogs")
         [] q.kind = "POST /api/clients/:clientId/interactions" ->
              LET data == q.body @@ [clientId |-> q.id, createdBy |-> q.user.id]
              IN IF ~insertInteractionSchema(data)
                   THEN Respond(Step(q, "validate"), 400)
                   ELSE Await([Step(q, "validate") EXCEPT
                                 !.body = Strip(data, InsertInteractionKeys)],
                              "createInteraction")

\* the existence check of the three handlers and what each does next
AfterGetClient(q, rows) ==
  IF rows = {} THEN Respond(q, 404)
  ELSE CASE q.kind = "PUT /api/clients/:id" ->
              Await([q EXCEPT !.ts = clock + 1], "updateClient")
         [] q.kind = "DELETE /api/clients/:id" ->
              Await(q, "deleteClient")
         [] q.kind = "GET /api/clients/:clientId/audit-logs" ->
              Await(q, "getClientAuditLogs")
         [] q.kind = "POST /api/clients/:clientId/interactions" ->
              IF q.user = NoUser THEN Respond(q, 500)
              ELSE LET data == [clientId |-> q.id, createdBy |-> q.user.id] @@ q.body
                   IN IF ~insertInteractionSchema(data)
                        THEN Respond(Step(q, "validate"), 400)
                        ELSE Await([Step(q, "validate") EXCEPT
                                      !.body = Strip(data, InsertInteractionKeys)],
                                   "createInteraction")

AwaitGetClient(r) ==
  /\ Pending(r, "getClient")
  /\ SetReq(r, AfterGetClient(reqs[r], getClient(clients, reqs[r].id)))
  /\ UNCHANGED <<admins, clients, interactions, auditLogs, sessions, loggedOut, serial, clock, budget>>

AwaitUpdateClient(r) ==
  /\ Pending(r, "updateClient")
  /\ LET q == reqs[r]
         res == updateClient(clients, admins, q.id, q.body, q.ts)
     IN /\ clients' = res.clients
        /\ IF res.error
             THEN SetReq(r, Respond(q, 500)) /\ clock' = clock
             ELSE /\ SetReq(r, IF res.found
                                 THEN Wrote(OnPersisted(q, q.id, clock + 1), "client", q.id, "update")
                                 ELSE Missed(OnPersisted(q, q.id, 0)))
                  /\ clock' = IF res.found THEN clock + 1 ELSE clock
  /\ UNCHANGED <<admins, interactions, auditLogs, sessions, loggedOut, serial, budget>>

AwaitDeleteClient(r) ==
  /\ Pending(r, "deleteClient")
  /\ LET q == reqs[r]
         res == deleteClient(clients, interactions, q.id)
     IN /\ clients' = res.clients
        /\ interactions' = res.interactions
        /\ IF res.deleted
             THEN SetReq(r, Wrote(OnPersisted(q, q.id, clock + 1), "client", q.id, "delete")) /\ clock' = clock + 1
             ELSE SetReq(r, Missed(Respond(q, 500))) /\ clock' = clock
  /\ UNCHANGED <<admins, auditLogs, sessions, loggedOut, serial, budget>>

(***************************************************************************)
(* Interaction routes                                                      *)
(***************************************************************************)
AwaitCreateInteraction(r) ==
  /\ Pending(r, "createInteraction")
  /\ LET q == reqs[r]
         id == serial.interactions + 1
         res == createInteraction(interactions, clients, admins, id, q.body, clock + 1)
     IN /\ serial' = [serial EXCEPT !.interactions = id]
        /\ interactions' = res.interactions
        /\ IF res.error
             THEN SetReq(r, Respond(q, 500)) /\ clock' = clock
             ELSE SetReq(r, Wrote(OnPersisted(q, id, clock + 1), "interaction", id, "create")) /\ clock' = clock + 1
  /\ UNCHANGED <<admins, clients, auditLogs, sessions, loggedOut, budget>>

PutInteraction(c, id, body) ==
  LET q == NewReq("PUT /api/interactions/:id", c, id, body)
      guard == requireAuth(q.user)
  IN /\ Enqueue(IF guard # 0 THEN Respond(q, guard) ELSE Await(q, "getInteraction"))
     /\ UNCHANGED <<admins, clients, interactions, auditLogs, sessions, loggedOut, serial, clock>>

DeleteInteraction(c, id) ==
  LET q == NewReq("DELETE /api/interactions/:id", c, id, <<>>)
      guard == requireAuth(q.user)
  IN /\ Enqueue(IF guard # 0 THEN Respond(q, guard) ELSE Await(q, "getInteraction"))
     /\ UNCHANGED <<admins, clients, interactions, auditLogs, sessions, loggedOut, serial, clock>>

\* a handler that drops the reference columns from the body
AfterGetInteractionFiltersBody(q, rows) ==
  IF rows = {} THEN Respond(q, 404)
  ELSE IF q.kind = "PUT /api/interactions/:id"
         THEN Await([q EXCEPT !.ts = clock + 1,
                              !.body = [f \in (DOMAIN q.body) \ {"clientId", "createdBy"} |-> q.body[f]]],
                    "updateInteraction")
         ELSE Await(q, "deleteInteraction")

AfterGetInteraction(q, rows) ==
  IF rows = {} THEN Respond(q, 404)
  ELSE IF q.kind = "PUT /api/interactions/:id"
         THEN Await([q EXCEPT !.ts = clock + 1], "updateInteraction")
         ELSE Await(q, "deleteInteraction")

AwaitGetInteraction(r) ==
  /\ Pending(r, "getInteraction")
  /\ SetReq(r, AfterGetInteraction(reqs[r], getInteraction(interactions, reqs[r].id)))
  /\ UNCHANGED <<admins, clients, interactions, auditLogs, sessions, loggedOut, serial, clock, budget>>

AwaitUpdateInteraction(r) ==
  /\ Pending(r, "updateInteraction")
  /\ LET q == reqs[r]
         res == updateInteraction(interactions, clients, admins, q.id, q.body, q.ts)
     IN /\ interactions' = res.interactions
        /\ IF res.error
             THEN SetReq(r, Respond(q, 500)) /\ clock' = clock
             ELSE /\ SetReq(r, IF res.found
                                 THEN Wrote(OnPersisted(q, q.id, clock + 1), "interaction", q.id, "update")
                                 ELSE Missed(OnPersisted(q, q.id, 0)))
                  /\ clock' = IF res.found THEN clock + 1 ELSE clock
  /\ UNCHANGED <<admins, clients, auditLogs, sessions, loggedOut, serial, budget>>

AwaitDeleteInteraction(r) ==
  /\ Pending(r, "deleteInteraction")
  /\ LET q == reqs[r]
         res == deleteInteraction(interactions, q.id)
     IN /\ interactions' = res.interactions
        /\ IF res.deleted
             THEN SetReq(r, Wrote(OnPersisted(q, q.id, clock + 1), "interaction", q.id, "delete")) /\ clock' = clock + 1
             ELSE SetReq(r, Missed(Respond(q, 500))) /\ clock' = clock
  /\ UNCHANGED <<admins, clients, auditLogs, sessions, loggedOut, serial, budget>>

(***************************************************************************)
(* Admin routes                                                            *)
(***************************************************************************)
SanitizeKeepsPassword(admin) == admin

\* const { password, ...sanitizedAdmin } = admin
Sanitize(admin) == [f \in (DOMAIN admin) \ {"password"} |-> admin[f]]

\* GET /api/admins up to the await of listAdmins
GetAdmins(c) ==
  LET q == NewReq("GET /api/admins", c, 0, <<>>)
      guard == requireAdmin(q.user)
  IN /\ Enqueue(IF guard # 0 THEN Respond(q, guard) ELSE Await(q, "listAdmins"))
     /\ UNCHANGED <<admins, clients, interactions, auditLogs, sessions, loggedOut, serial, clock>>

listAdmins(adminTable) == {adminTable[i] : i \in DOMAIN adminTable}

AwaitListAdmins(r) ==
  /\ Pending(r, "listAdmins")
  /\ SetReq(r, Json(Respond(reqs[r], 200), {Sanitize(a) : a \in listAdmins(admins)}))
  /\ UNCHANGED <<admins, clients, interactions, auditLogs, sessions, loggedOut, serial, clock, budget>>

PostAdmins(c, body) ==
  LET q == NewReq("POST /api/admins", c, 0, body)
      guard == requireAdmin(q.user)
  IN /\ Enqueue(
          IF guard # 0 THEN Respond(q, guard)
          ELSE IF ~insertAdminSchema(body) THEN Respond(Step(q, "validate"), 400)
          ELSE Await([Step(q, "validate") EXCEPT !.body = Strip(body, InsertAdminKeys)],
                     "createAdmin"))
     /\ UNCHANGED <<admins, clients, interactions, auditLogs, sessions, loggedOut, serial, clock>>

AwaitCreateAdmin(r) ==
  /\ Pending(r, "createAdmin")
  /\ LET q == reqs[r]
         id == serial.admins + 1
         res == createAdmin(admins, id, q.body)
     IN /\ serial' = [serial EXCEPT !.admins = id]
        /\ admins' = res.admins
        /\ IF res.error
             THEN SetReq(r, Respond(q, 500)) /\ clock' = clock
             ELSE /\ SetReq(r, Json(Wrote(OnPersisted(q, id, clock + 1), "admin", id, "create"),
                                    {Sanitize(res.admins[id])}))
                  /\ clock' = clock + 1
  /\ UNCHANGED <<clients, interactions, auditLogs, sessions, loggedOut, budget>>

PutAdmin(c, id, body) ==
  LET q == NewReq("PUT /api/admins/:id", c, id, body)
      guard == requireAdmin(q.user)
  IN /\ Enqueue(IF guard # 0 THEN Respond(q, guard) ELSE Await(q, "updateAdmin"))
     /\ UNCHANGED <<admins, clients, interactions, auditLogs, sessions, loggedOut, serial, clock>>

AwaitUpdateAdmin(r) ==
  /\ Pending(r, "updateAdmin")
  /\ LET q == reqs[r]
         res == updateAdmin(admins, q.id, q.body)
     IN /\ admins' = res.admins
        /\ IF res.error THEN SetReq(r, Respond(q, 500)) /\ clock' = clock
           ELSE IF ~res.found THEN SetReq(r, Missed(Respond(q, 404))) /\ clock' = clock
           ELSE /\ SetReq(r, Json(Wrote(OnPersisted(q, q.id, clock + 1), "admin", q.id, "update"),
                                  {Sanitize(res.admins[q.id])}))
                /\ clock' = clock + 1
  /\ UNCHANGED <<clients, interactions, auditLogs, sessions, loggedOut, serial, budget>>

(***************************************************************************)
(* Audit helper                                                            *)
(***************************************************************************)
createAuditLogAnonymous(q, r, logs, now) ==
  storageCreateAuditLog(logs,
    [adminId |-> 0, entityType |-> Route(q.kind).entityType,
     entityId |-> q.id, action |-> Route(q.kind).action, req |-> r], now)

createAuditLogSkipped(q, r, logs, now) == logs

\* const createAuditLog = async (req, entityType, entityId, action, details)
createAuditLog(q, r, logs, now) ==
  IF q.user # NoUser
    THEN storageCreateAuditLog(logs,
           [adminId |-> q.user.id, entityType |-> Route(q.kind).entityType,
            entityId |-> q.id, action |-> Route(q.kind).action, req |-> r], now)
    ELSE logs

\* the audit insert succeeds and the handler sends its success response
AwaitCreateAuditLog(r) ==
  /\ Pending(r, "createAuditLog")
  /\ auditLogs' = createAuditLog(reqs[r], r, auditLogs, clock + 1)
  /\ clock' = clock + 1
  /\ SetReq(r, Respond(Step(reqs[r], "audit"), Route(reqs[r].kind).status))
  /\ UNCHANGED <<admins, clients, interactions, sessions, loggedOut, serial, budget>>

AuditErrorRollsBack(q) ==
  IF q.kind = "POST /api/clients"
    THEN <<admins, Without(clients, {q.id}), interactions>>
    ELSE <<admins, clients, interactions>>

\* the tables after the audit insert of request q raised: the data write
\* and the audit insert are separate statements, no transaction spans them
AfterAuditError(q) == <<admins, clients, interactions>>

\* the audit insert raises; the rejection reaches the handler's catch
AuditLogError(r) ==
  /\ Pending(r, "createAuditLog")
  /\ reqs[r].user # NoUser
  /\ admins' = AfterAuditError(reqs[r])[1]
  /\ clients' = AfterAuditError(reqs[r])[2]
  /\ interactions' = AfterAuditError(reqs[r])[3]
  /\ SetReq(r, Json(Respond([Step(reqs[r], "audit") EXCEPT !.auditFailed = TRUE], 500), {}))
  /\ UNCHANGED <<auditLogs, sessions, loggedOut, serial, clock, budget>>

(***************************************************************************)
(* Auth routes and the LocalStrategy                                       *)
(***************************************************************************)
\* ghost: the credentials are those of a stored, active admin
ValidCredentials(adminTable, body) ==
  \E a \in getAdminByUsername(adminTable, body.username) :
    a.active /\ validatePassword(body.password, a.password)

\* POST /api/auth/login up to the strategy's await of getAdminByUsername
Login(c, body) ==
  LET q == [NewReq("POST /api/auth/login", c, 0, body) EXCEPT
              !.validCreds = ValidCredentials(admins, body)]
  IN /\ Enqueue(
          IF ~loginSchema(body)
            THEN [Respond(Step(q, "validate"), 400) EXCEPT !.message = "Validation error"]
            ELSE Await(Step(q, "validate"), "getAdminByUsername"))
     /\ UNCHANGED <<admins, clients, interactions, auditLogs, sessions, loggedOut, serial, clock>>

Fail401(q, cause, message) ==
  [Respond(q, 401) EXCEPT !.cause = cause, !.message = message]

\* a verify callback that does not look at the active flag
VerifySkipsActive(q, rows) ==
  IF rows = {} THEN Fail401(q, "absent", "Invalid username or password")
  ELSE LET admin == CHOOSE a \in rows : TRUE
       IN IF ~validatePassword(q.body.password, admin.password)
            THEN Fail401(q, "mismatch", "Invalid username or password")
          ELSE Await([q EXCEPT !.verified = Identity(admin)], "updateLastLogin")

\* the verify callback from the row lookup to the await of updateLastLogin
Verify(q, rows) ==
  IF rows = {} THEN Fail401(q, "absent", "Invalid username or password")
  ELSE LET admin == CHOOSE a \in rows : TRUE
       IN IF ~admin.active THEN Fail401(q, "inactive", "Account is disabled")
          ELSE IF ~validatePassword(q.body.password, admin.password)
            THEN Fail401(q, "mismatch", "Invalid username or password")
          ELSE Await([q EXCEPT !.verified = Identity(admin)], "updateLastLogin")

AwaitGetAdminByUsername(r) ==
  /\ Pending(r, "getAdminByUsername")
  /\ SetReq(r, Verify(reqs[r], getAdminByUsername(admins, reqs[r].body.username)))
  /\ UNCHANGED <<admins, clients, interactions, auditLogs, sessions, loggedOut, serial, clock, budget>>

AwaitUpdateLastLogin(r) ==
  /\ Pending(r, "updateLastLogin")
  /\ admins' = updateLastLogin(admins, reqs[r].verified.id, clock + 1)
  /\ clock' = clock + 1
  /\ SetReq(r, Await(reqs[r], "logIn"))
  /\ UNCHANGED <<clients, interactions, auditLogs, sessions, loggedOut, serial, budget>>

\* the lastLogin write raises: catch -> done(error) -> next(err)
UpdateLastLoginError(r) ==
  /\ Pending(r, "updateLastLogin")
  /\ SetReq(r, [Respond(reqs[r], 500) EXCEPT !.cause = "store"])
  /\ UNCHANGED <<admins, clients, interactions, auditLogs, sessions, loggedOut, serial, clock, budget>>

\* res.json({ user: { id: user.id, username: user.username, role: user.role } })
LoginResponse(user) == [id |-> user.id, username |-> user.username, role |-> user.role]

\* req.logIn: the identity is stored in the session record of the cookie
logIn(sess, c, user) == [sess EXCEPT ![c] = user]

AwaitLogIn(r) ==
  /\ Pending(r, "logIn")
  /\ sessions' = logIn(sessions, reqs[r].cookie, reqs[r].verified)
  /\ loggedOut' = [loggedOut EXCEPT ![reqs[r].cookie] = FALSE]
  /\ SetReq(r, Json(Respond(reqs[r], 200), {LoginResponse(reqs[r].verified)}))
  /\ UNCHANGED <<admins, clients, interactions, auditLogs, serial, clock, budget>>

logoutKeepsSession(sess, c) == sess

\* req.logout: the passport user is removed from the session record
logout(sess, c) == [sess EXCEPT ![c] = NoUser]

\* POST /api/auth/logout
Logout(c) ==
  /\ Enqueue(Respond(NewReq("POST /api/auth/logout", c, 0, <<>>), 200))
  /\ sessions' = logout(sessions, c)
  /\ loggedOut' = [loggedOut EXCEPT ![c] = TRUE]
  /\ UNCHANGED <<admins, clients, interactions, auditLogs, serial, clock>>

\* GET /api/auth/user
AuthUser(c) ==
  LET q == NewReq("GET /api/auth/user", c, 0, <<>>)
  IN /\ Enqueue(IF q.user # NoUser THEN Json(Respond(q, 200), {q.user}) ELSE Respond(q, 401))
     /\ UNCHANGED <<admins, clients, interactions, auditLogs, sessions, loggedOut, serial, clock>>

\* GET /api/clients up to the await of listClients
GetClients(c) ==
  LET q == NewReq("GET /api/clients", c, 0, <<>>)
      guard == requireAuth(q.user)
  IN /\ Enqueue(IF guard # 0 THEN Respond(q, guard) ELSE Await(q, "listClients"))
     /\ UNCHANGED <<admins, clients, interactions, auditLogs, sessions, loggedOut, serial, clock>>

AwaitListClients(r) ==
  /\ Pending(r, "listClients")
  /\ \E rowSeq \in listClients(clients, DefaultLimit) :
       SetReq(r, [Respond(reqs[r], 200) EXCEPT !.list = rowSeq])
  /\ UNCHANGED <<admins, clients, interactions, auditLogs, sessions, loggedOut, serial, clock, budget>>

\* GET /api/audit-logs
GetAuditLogs(c) ==
  LET q == NewReq("GET /api/audit-logs", c, 0, <<>>)
      guard == requireAuth(q.user)
  IN /\ Enqueue(IF guard # 0 THEN Respond(q, guard) ELSE Await(q, "listAuditLogs"))
     /\ UNCHANGED <<admins, clients, interactions, auditLogs, sessions, loggedOut, serial, clock>>

AwaitListAuditLogs(r) ==
  /\ Pending(r, "listAuditLogs")
  /\ \E rowSeq \in listAuditLogs(auditLogs, DefaultLimit) :
       SetReq(r, [Respond(reqs[r], 200) EXCEPT !.list = rowSeq])
  /\ UNCHANGED <<admins, clients, interactions, auditLogs, sessions, loggedOut, serial, clock, budget>>

\* GET /api/clients/:clientId/audit-logs up to the await of getClient
GetClientAuditLogs(c, id) ==
  LET q == NewReq("GET /api/clients/:clientId/audit-logs", c, id, <<>>)
      guard == requireAuth(q.user)
  IN /\ Enqueue(IF guard # 0 THEN Respond(q, guard) ELSE Await(q, "getClient"))
     /\ UNCHANGED <<admins, clients, interactions, auditLogs, sessions, loggedOut, serial, clock>>

AwaitGetClientAuditLogs(r) ==
  /\ Pending(r, "getClientAuditLogs")
  /\ \E rowSeq \in getClientAuditLogs(auditLogs, reqs[r].id) :
       SetReq(r, [Respond(reqs[r], 200) EXCEPT !.list = rowSeq])
  /\ UNCHANGED <<admins, clients, interactions, auditLogs, sessions, loggedOut, serial, clock, budget>>

(***************************************************************************)
(* Bootstrap: the default admin check at the end of registerRoutes         *)
(***************************************************************************)
DefaultAdmin ==
  [username |-> "admin", password |-> "admin123", role |-> "admin", active |-> TRUE]

\* the server process at the await of storage.listAdmins
BootRequest ==
  [kind |-> "bootstrap", pc |-> "bootListAdmins", cookie |-> "", user |-> NoUser,
   id |-> 0, body |-> <<>>, ts |-> 0, status |-> 0, message |-> "",
   steps |-> <<>>, wroteAt |-> 0, auditFailed |-> FALSE,
   verified |-> NoUser, cause |-> "", validCreds |-> FALSE,
   mutation |-> NoMutation, afterLogout |-> FALSE, json |-> {}, raw |-> <<>>,
   missed |-> FALSE, list |-> <<>>, stale |-> FALSE]

\* the server process is started again while no request is in flight
Bootstrap ==
  /\ \A r \in 1..Len(reqs) : reqs[r].pc = "done"
  /\ Enqueue(BootRequest)
  /\ UNCHANGED <<admins, clients, interactions, auditLogs, sessions, loggedOut, serial, clock>>

AfterBootListAdminsNoneActive(q, rows) ==
  IF \A a \in rows : ~a.active THEN Await(q, "bootCreateAdmin") ELSE Await(q, "done")

\* if (admins.length === 0) await storage.createAdmin({...})
AfterBootListAdmins(q, rows) ==
  IF rows = {} THEN Await(q, "bootCreateAdmin") ELSE Await(q, "done")

AwaitBootListAdmins(r) ==
  /\ Pending(r, "bootListAdmins")
  /\ SetReq(r, AfterBootListAdmins(reqs[r], listAdmins(admins)))
  /\ UNCHANGED <<admins, clients, interactions, auditLogs, sessions, loggedOut, serial, clock, budget>>

\* the insert of the default admin; an error is caught and logged
AwaitBootCreateAdmin(r) ==
  /\ Pending(r, "bootCreateAdmin")
  /\ LET id == serial.admins + 1
         res == createAdmin(admins, id, DefaultAdmin)
     IN /\ serial' = [serial EXCEPT !.admins = id]
        /\ admins' = res.admins
        /\ IF res.error
             THEN SetReq(r, Await(reqs[r], "done")) /\ clock' = clock
             ELSE /\ SetReq(r, Await(Wrote([reqs[r] EXCEPT !.id = id, !.wroteAt = clock + 1],
                                          "admin", id, "create"), "done"))
                  /\ clock' = clock + 1
  /\ UNCHANGED <<clients, interactions, auditLogs, sessions, loggedOut, budget>>

\* time passes on the server while requests wait for the store
Tick ==
  /\ clock < MaxClock
  /\ clock' = clock + 1
  /\ UNCHANGED <<admins, clients, interactions, auditLogs, sessions, loggedOut, reqs, serial, budget>>

(***************************************************************************)
(* Specifications                                                          *)
(***************************************************************************)
\* a store as earlier runs of the server leave it: the seeded administrator,
\* a deactivated user, one client with one interaction, and a live session
InitTables ==
  /\ admins = (1 :> [id |-> 1, username |-> "admin", password |-> Hash("admin123"),
                     role |-> "admin", active |-> TRUE, lastLogin |-> 1])
           @@ (2 :> [id |-> 2, username |-> "bob", password |-> Hash("secret1"),
                     role |-> "user", active |-> FALSE, lastLogin |-> 0])
  /\ clients = (1 :> [id |-> 1, email |-> "c@x.com", phone |-> "000",
                      createdBy |-> 1, createdAt |-> 2, updatedAt |-> 2])
  /\ interactions = (1 :> [id |-> 1, clientId |-> 1, type |-> "note", title |-> "t0",
                           description |-> "d", createdBy |-> 1,
                           createdAt |-> 4, updatedAt |-> 4])
  /\ auditLogs = << [id |-> 1, adminId |-> 1, entityType |-> "client", entityId |-> 1,
                     action |-> "create", createdAt |-> 3, req |-> 0],
                    [id |-> 2, adminId |-> 1, entityType |-> "interaction", entityId |-> 1,
                     action |-> "create", createdAt |-> 5, req |-> 0] >>
  /\ loggedOut = [c \in Cookies |-> FALSE]
  /\ reqs = <<>>
  /\ serial = [admins |-> 2, clients |-> 1, interactions |-> 1]
  /\ clock = 5

InitStore ==
  /\ InitTables
  /\ sessions = [c \in Cookies |->
                   IF c = "c1" THEN [id |-> 1, username |-> "admin", role |-> "admin"]
                   ELSE NoUser]

\* the same store while the session bob opened before his deactivation is
\* still live: the session keeps the identity serialized at login
InitAdmin ==
  /\ InitTables
  /\ sessions = [c \in Cookies |->
                   IF c = "c1" THEN [id |-> 1, username |-> "admin", role |-> "admin"]
                   ELSE [id |-> 2, username |-> "bob", role |-> "user"]]
  /\ budget = MaxAdminRequests

Init == InitStore /\ budget = MaxRequests

InitAuth == InitStore /\ budget = MaxAuthRequests

\* requests of callers that hold a session: the mutating routes
Next ==
  \/ \E c \in SessionCookies : \E body \in ClientCreateBodies : PostClients(c, body)
  \/ \E c \in SessionCookies : \E id \in TargetIds : \E body \in ClientUpdateBodies :
       PutClient(c, id, body)
  \/ \E c \in SessionCookies : \E id \in DeleteClientIds : DeleteClient(c, id)
  \/ \E c \in SessionCookies : \E id \in TargetIds : \E body \in InteractionCreateBodies :
       PostInteractions(c, id, body)
  \/ \E c \in SessionCookies : \E id \in TargetIds : \E body \in InteractionUpdateBodies :
       PutInteraction(c, id, body)
  \/ \E c \in SessionCookies : \E id \in TargetIds : DeleteInteraction(c, id)
  \/ \E c \in SessionCookies : \E body \in AdminCreateBodies : PostAdmins(c, body)
  \/ \E c \in SessionCookies : \E id \in AdminTargetIds : \E body \in AdminUpdateBodies :
       PutAdmin(c, id, body)
  \/ \E r \in ReqIds : AwaitCreateClient(r)
  \/ \E r \in ReqIds : AwaitGetClient(r)
  \/ \E r \in ReqIds : AwaitUpdateClient(r)
  \/ \E r \in ReqIds : AwaitDeleteClient(r)
  \/ \E r \in ReqIds : AwaitCreateInteraction(r)
  \/ \E r \in ReqIds : AwaitGetInteraction(r)
  \/ \E r \in ReqIds : AwaitUpdateInteraction(r)
  \/ \E r \in ReqIds : AwaitDeleteInteraction(r)
  \/ \E r \in ReqIds : AwaitCreateAdmin(r)
  \/ \E r \in ReqIds : AwaitUpdateAdmin(r)
  \/ \E r \in ReqIds : AwaitCreateAuditLog(r)
  \/ \E r \in ReqIds : AuditLogError(r)

Spec == Init /\ [][Next]_vars

\* login, logout and session reuse, with an admin created on the way
NextAuth ==
  \/ \E c \in Cookies : \E body \in LoginBodies : Login(c, body)
  \/ \E c \in Cookies : Logout(c)
  \/ \E c \in Cookies : AuthUser(c)
  \/ \E c \in Cookies : GetClients(c)
  \/ \E c \in Cookies : \E body \in AuthAdminCreateBodies : PostAdmins(c, body)
  \/ \E r \in ReqIds : AwaitGetAdminByUsername(r)
  \/ \E r \in ReqIds : AwaitUpdateLastLogin(r)
  \/ \E r \in ReqIds : UpdateLastLoginError(r)
  \/ \E r \in ReqIds : AwaitLogIn(r)
  \/ \E r \in ReqIds : AwaitListClients(r)
  \/ \E r \in ReqIds : AwaitCreateAdmin(r)
  \/ \E r \in ReqIds : AwaitCreateAuditLog(r)

SpecAuth == InitAuth /\ [][NextAuth]_vars

\* the admin routes called from an admin session and from a user session
NextAdmin ==
  \/ \E c \in Cookies : GetAdmins(c)
  \/ \E c \in Cookies : \E body \in AdminCreateBodies : PostAdmins(c, body)
  \/ \E c \in Cookies : \E id \in AdminTargetIds : \E body \in AdminPutBodies :
       PutAdmin(c, id, body)
  \/ \E c \in Cookies : \E body \in AdminLoginBodies : Login(c, body)
  \/ \E c \in Cookies : AuthUser(c)
  \/ \E r \in ReqIds : AwaitListAdmins(r)
  \/ \E r \in ReqIds : AwaitCreateAdmin(r)
  \/ \E r \in ReqIds : AwaitUpdateAdmin(r)
  \/ \E r \in ReqIds : AwaitCreateAuditLog(r)
  \/ \E r \in ReqIds : AwaitGetAdminByUsername(r)
  \/ \E r \in ReqIds : AwaitUpdateLastLogin(r)
  \/ \E r \in ReqIds : AwaitLogIn(r)

SpecAdmin == InitAdmin /\ [][NextAdmin]_vars

InitFields == InitStore /\ budget = MaxFieldRequests

\* creates and updates of clients and interactions
NextFields ==
  \/ \E c \in SessionCookies : \E body \in FieldClientCreateBodies : PostClients(c, body)
  \/ \E c \in SessionCookies : \E id \in TargetIds : \E body \in FieldClientUpdateBodies :
       PutClient(c, id, body)
  \/ \E c \in SessionCookies : \E id \in TargetIds : \E body \in FieldInteractionCreateBodies :
       PostInteractions(c, id, body)
  \/ \E c \in SessionCookies : \E id \in TargetIds : \E body \in FieldInteractionUpdateBodies :
       PutInteraction(c, id, body)
  \/ \E r \in ReqIds : AwaitCreateClient(r)
  \/ \E r \in ReqIds : AwaitGetClient(r)
  \/ \E r \in ReqIds : AwaitUpdateClient(r)
  \/ \E r \in ReqIds : AwaitCreateInteraction(r)
  \/ \E r \in ReqIds : AwaitGetInteraction(r)
  \/ \E r \in ReqIds : AwaitUpdateInteraction(r)
  \/ \E r \in ReqIds : AwaitCreateAuditLog(r)

SpecFields == InitFields /\ [][NextFields]_vars

\* concurrent updates of one client while time passes
NextRace ==
  \/ \E c \in SessionCookies : \E id \in TargetIds : \E body \in ClientUpdateBodies :
       PutClient(c, id, body)
  \/ \E r \in ReqIds : AwaitGetClient(r)
  \/ \E r \in ReqIds : AwaitUpdateClient(r)
  \/ \E r \in ReqIds : AwaitCreateAuditLog(r)
  \/ \E r \in ReqIds : AuditLogError(r)
  \/ Tick

SpecRace == InitFields /\ [][NextRace]_vars

\* the server process starting on a fresh database, or on one whose only
\* admin has been deactivated
InitBoot ==
  /\ admins \in { <<>>,
                   (1 :> [id |-> 1, username |-> "bob", password |-> Hash("secret1"),
                          role |-> "user", active |-> FALSE, lastLogin |-> 0]) }
  /\ clients = <<>>
  /\ interactions = <<>>
  /\ auditLogs = <<>>
  /\ sessions = [c \in Cookies |-> NoUser]
  /\ loggedOut = [c \in Cookies |-> FALSE]
  /\ reqs = <<BootRequest>>
  /\ serial = [admins |-> Cardinality(DOMAIN admins), clients |-> 0, interactions |-> 0]
  /\ clock = 0
  /\ budget = MaxBootRequests

\* bootstrap, restarts, and the admin routes in between
NextBoot ==
  \/ Bootstrap
  \/ \E r \in ReqIds : AwaitBootListAdmins(r)
  \/ \E r \in ReqIds : AwaitBootCreateAdmin(r)
  \/ \E c \in Cookies : \E body \in AdminLoginBodies : Login(c, body)
  \/ \E c \in Cookies : \E body \in AdminCreateBodies : PostAdmins(c, body)
  \/ \E c \in Cookies : \E id \in BootTargetIds : \E body \in BootUpdateBodies :
       PutAdmin(c, id, body)
  \/ \E r \in ReqIds : AwaitGetAdminByUsername(r)
  \/ \E r \in ReqIds : AwaitUpdateLastLogin(r)
  \/ \E r \in ReqIds : AwaitLogIn(r)
  \/ \E r \in ReqIds : AwaitCreateAdmin(r)
  \/ \E r \in ReqIds : AwaitUpdateAdmin(r)
  \/ \E r \in ReqIds : AwaitCreateAuditLog(r)

SpecBoot == InitBoot /\ [][NextBoot]_vars

(***************************************************************************)
(* Properties                                                              *)
\* a second client is created, and the session of a user who created
\* nothing rewrites the references of stored rows
InitOwner ==
  /\ InitTables
  /\ sessions = [c \in Cookies |->
                   IF c = "c1" THEN [id |-> 1, username |-> "admin", role |-> "admin"]
                   ELSE [id |-> 2, username |-> "bob", role |-> "user"]]
  /\ budget = MaxOwnerRequests

NextOwner ==
  \/ \E c \in Cookies : \E body \in ListCreateBodies : PostClients(c, body)
  \/ \E c \in Cookies : \E id \in TargetIds : \E body \in OwnerClientUpdateBodies :
       PutClient(c, id, body)
  \/ \E c \in Cookies : \E id \in TargetIds : \E body \in OwnerInteractionUpdateBodies :
       PutInteraction(c, id, body)
  \/ \E r \in ReqIds : AwaitCreateClient(r)
  \/ \E r \in ReqIds : AwaitGetClient(r)
  \/ \E r \in ReqIds : AwaitUpdateClient(r)
  \/ \E r \in ReqIds : AwaitGetInteraction(r)
  \/ \E r \in ReqIds : AwaitUpdateInteraction(r)
  \/ \E r \in ReqIds : AwaitCreateAuditLog(r)

SpecOwner == InitOwner /\ [][NextOwner]_vars

\* a client is deleted while the audit log is read
InitAudit == InitStore /\ budget = MaxAuditRequests

NextAudit ==
  \/ \E c \in SessionCookies : \E id \in TargetIds : DeleteClient(c, id)
  \/ \E c \in SessionCookies : GetAuditLogs(c)
  \/ \E c \in SessionCookies : \E id \in TargetIds : GetClientAuditLogs(c, id)
  \/ \E r \in ReqIds : AwaitGetClient(r)
  \/ \E r \in ReqIds : AwaitDeleteClient(r)
  \/ \E r \in ReqIds : AwaitCreateAuditLog(r)
  \/ \E r \in ReqIds : AwaitListAuditLogs(r)
  \/ \E r \in ReqIds : AwaitGetClientAuditLogs(r)

SpecAudit == InitAudit /\ [][NextAudit]_vars

\* clients are created, updated and listed
InitList == InitStore /\ budget = MaxListRequests

NextList ==
  \/ \E c \in SessionCookies : \E body \in ListCreateBodies : PostClients(c, body)
  \/ \E c \in SessionCookies : \E id \in TargetIds : \E body \in ListUpdateBodies :
       PutClient(c, id, body)
  \/ \E c \in SessionCookies : GetClients(c)
  \/ \E r \in ReqIds : AwaitCreateClient(r)
  \/ \E r \in ReqIds : AwaitGetClient(r)
  \/ \E r \in ReqIds : AwaitUpdateClient(r)
  \/ \E r \in ReqIds : AwaitCreateAuditLog(r)
  \/ \E r \in ReqIds : AwaitListClients(r)

SpecList == InitList /\ [][NextList]_vars

(***************************************************************************)
Requests == 1..Len(reqs)

Done(q) == q.pc = "done"

Success(q) == q.status \in {200, 201}

GuardedKinds == MutatingKinds \cup {"GET /api/clients"}

AuditRowsOf(r) == {i \in 1..Len(auditLogs) : auditLogs[i].req = r}

StepRank(name) ==
  CASE name = "validate" -> 1
    [] name = "persist" -> 2
    [] name = "audit" -> 3
    [] name = "respond" -> 4

\* C1: every mutating request answered 2xx has appended exactly one audit
\* row; when it changed a row, the audit row names that entity type, entity
\* id and action and was appended after the data write.
C1_ExactlyOneAuditRow ==
  \A r \in Requests :
    LET q == reqs[r] IN
    (q.kind \in MutatingKinds /\ Done(q) /\ Success(q)) =>
      /\ Cardinality(AuditRowsOf(r)) = 1
      /\ q.wroteAt > 0 =>
           \A i \in AuditRowsOf(r) :
             /\ auditLogs[i].entityType = q.mutation.entityType
             /\ auditLogs[i].entityId = q.mutation.entityId
             /\ auditLogs[i].action = q.mutation.action
             /\ auditLogs[i].createdAt > q.wroteAt

C1_Witness ==
  \E r \in Requests :
    /\ reqs[r].kind = "DELETE /api/interactions/:id"
    /\ Done(reqs[r]) /\ Success(reqs[r]) /\ reqs[r].wroteAt > 0
    /\ Cardinality(AuditRowsOf(r)) = 1

\* C2: within one mutating request the steps validate, persist, audit,
\* respond happen in that order: no audit attempt without a preceding data
\* write, and no response after a data write before the audit attempt.
C2_StrictSequence ==
  \A r \in Requests :
    LET q == reqs[r] IN
    q.kind \in MutatingKinds =>
      /\ \A i, j \in 1..Len(q.steps) :
           i < j => StepRank(q.steps[i]) < StepRank(q.steps[j])
      /\ (\E i \in 1..Len(q.steps) : q.steps[i] = "audit") =>
           (\E i \in 1..Len(q.steps) : q.steps[i] = "persist")
      /\ ((\E i \in 1..Len(q.steps) : q.steps[i] = "persist") /\ q.status # 0) =>
           (\E i \in 1..Len(q.steps) : q.steps[i] = "audit")
      /\ \A i \in AuditRowsOf(r) :
           \E j \in 1..Len(q.steps) : q.steps[j] = "persist"

C2_Witness ==
  \E r \in Requests :
    /\ reqs[r].kind = "POST /api/clients/:clientId/interactions"
    /\ reqs[r].steps = <<"validate", "persist", "audit", "respond">>
    /\ reqs[r].status = 201

\* C3: a request whose audit append failed after its mutation was
\* committed is still answered with the success status of the mutation.
C3_AuditFailureKeepsSuccess ==
  \A r \in Requests :
    (Done(reqs[r]) /\ reqs[r].auditFailed /\ reqs[r].wroteAt > 0) =>
      reqs[r].status = Route(reqs[r].kind).status

\* C4: the step in which a request's audit append fails leaves the admins,
\* clients and interactions tables exactly as they were, so the committed
\* mutation stays.
C4_AuditFailureKeepsMutation ==
  [][(\E r \in Requests : ~reqs[r].auditFailed /\ reqs'[r].auditFailed) =>
       (admins' = admins /\ clients' = clients /\ interactions' = interactions)]_vars

C4_Witness ==
  \E r \in Requests :
    /\ reqs[r].kind = "POST /api/clients"
    /\ reqs[r].auditFailed /\ reqs[r].wroteAt > 0
    /\ reqs[r].id \in DOMAIN clients

\* C5: the deleteClient step on an existing client removes the client and
\* every interaction of that client together (getClient yields no row,
\* listInteractionsByClient yields none) and reports true; on a missing
\* client it changes neither table.
C5_CascadeAtomic ==
  [][\A r \in Requests :
       (reqs[r].pc = "deleteClient" /\ reqs'[r].pc # "deleteClient") =>
         LET id == reqs[r].id IN
         IF id \in DOMAIN clients
           THEN /\ reqs'[r].pc = "createAuditLog"
                /\ getClient(clients', id) = {}
                /\ listInteractionsByClient(interactions', id) = {}
           ELSE /\ reqs'[r].status = 500
                /\ clients' = clients /\ interactions' = interactions]_vars

C5_Witness ==
  /\ Len(reqs) = 1
  /\ reqs[1].kind = "DELETE /api/clients/:id" /\ reqs[1].id = 1
  /\ reqs[1].wroteAt > 0
  /\ getClient(clients, 1) = {} /\ listInteractionsByClient(interactions, 1) = {}

\* C6: in every reachable state every stored interaction's clientId is the
\* id of a stored client.
C6_NoDanglingInteraction ==
  \A i \in DOMAIN interactions : interactions[i].clientId \in DOMAIN clients

C6_Witness ==
  \E r1, r2 \in Requests :
    /\ reqs[r1].kind = "POST /api/clients/:clientId/interactions"
    /\ reqs[r1].steps = <<"validate", "respond">> /\ reqs[r1].status = 500
    /\ reqs[r2].kind = "DELETE /api/clients/:id"
    /\ reqs[r2].id = reqs[r1].id /\ reqs[r2].wroteAt > 0

\* C7: after a logout on a cookie and until a new login on it, the cookie's
\* session carries no user and every request presenting it is answered 401
\* by GET /api/auth/user and by the guarded routes.
C7_LogoutRevokes ==
  /\ \A c \in Cookies : loggedOut[c] => sessions[c] = NoUser
  /\ \A r \in Requests :
       (reqs[r].afterLogout /\ reqs[r].kind \in GuardedKinds \cup {"GET /api/auth/user"}) =>
         reqs[r].status = 401

C7_Witness ==
  \E r \in Requests :
    /\ reqs[r].cookie = "c1" /\ reqs[r].afterLogout
    /\ reqs[r].kind = "GET /api/clients" /\ reqs[r].status = 401

\* C8: a login with the username and correct password of an active admin
\* (no store call failing) is answered 200 and its session identity equals
\* the stored admin's id, username and role.
C8_ValidLoginSucceeds ==
  \A r \in Requests :
    LET q == reqs[r] IN
    (q.kind = "POST /api/auth/login" /\ Done(q) /\ q.validCreds /\ q.cause # "store"
       /\ ValidCredentials(admins, q.body)) =>
      /\ q.status = 200
      /\ \E a \in getAdminByUsername(admins, q.body.username) : q.verified = Identity(a)

\* C9: logins failing for an absent username, an inactive admin or a wrong
\* password all get the same status and the same message.
C9_FailuresIndistinguishable ==
  \A r1, r2 \in Requests :
    (/\ reqs[r1].kind = "POST /api/auth/login"
     /\ reqs[r2].kind = "POST /api/auth/login"
     /\ reqs[r1].cause \in {"absent", "inactive", "mismatch"}
     /\ reqs[r2].cause \in {"absent", "inactive", "mismatch"}) =>
      /\ reqs[r1].status = reqs[r2].status
      /\ reqs[r1].message = reqs[r2].message

\* C10: a request to a guarded route without a session user is answered 401
\* in the step that receives it, its handler never runs, and that step
\* leaves admins, clients, interactions, audit log and sessions unchanged.
C10_GuardRejectsUnchanged ==
  [][Len(reqs') = Len(reqs) + 1 =>
       LET q == reqs'[Len(reqs')] IN
       (q.kind \in GuardedKinds /\ q.user = NoUser) =>
         /\ q.status = 401 /\ q.pc = "done" /\ q.steps = <<"respond">>
         /\ UNCHANGED <<admins, clients, interactions, auditLogs, sessions>>]_vars

C10_Witness ==
  \E r \in Requests :
    /\ reqs[r].kind = "POST /api/admins" /\ reqs[r].user = NoUser
    /\ reqs[r].status = 401 /\ reqs[r].wroteAt = 0

AdminKinds == {"GET /api/admins", "POST /api/admins", "PUT /api/admins/:id"}

\* the admins table with the lastLogin stamps blanked
NoLastLogin(adminTable) ==
  [i \in DOMAIN adminTable |-> [adminTable[i] EXCEPT !.lastLogin = 0]]

\* C11: a request to GET/POST /api/admins or PUT /api/admins/:id from a
\* session whose role is not 'admin' is answered 403, and every step that
\* creates or modifies an Admin row belongs to a request whose session role
\* is 'admin'.
C11_NonAdminNeverChangesAdmins ==
  [][/\ \A r \in 1..Len(reqs') :
          (reqs'[r].kind \in AdminKinds /\ reqs'[r].user # NoUser
             /\ reqs'[r].user.role # "admin") => reqs'[r].status = 403
     /\ admins' # admins =>
          \E r \in Requests : reqs'[r] # reqs[r] /\ reqs[r].user.role = "admin"]_vars

\* C11 amended: as C11, except that a login of any session stamps lastLogin
\* on the row of the admin who logged in; every other column of every Admin
\* row, and the set of rows, changes only in steps of requests whose session
\* role is 'admin'.
C11_NonAdminChangesOnlyLastLogin ==
  [][/\ \A r \in 1..Len(reqs') :
          (reqs'[r].kind \in AdminKinds /\ reqs'[r].user # NoUser
             /\ reqs'[r].user.role # "admin") =>
            (reqs'[r].status = 403 /\ reqs'[r].pc = "done" /\ reqs'[r].wroteAt = 0)
     /\ NoLastLogin(admins') # NoLastLogin(admins) =>
          \E r \in Requests : reqs'[r] # reqs[r] /\ reqs[r].user.role = "admin"
     /\ admins' # admins =>
          \E r \in Requests :
            /\ reqs'[r] # reqs[r]
            /\ reqs[r].user.role = "admin" \/ reqs[r].kind = "POST /api/auth/login"]_vars

C11_Witness ==
  \E r1, r2 \in Requests :
    /\ reqs[r1].kind = "PUT /api/admins/:id" /\ reqs[r1].user.role = "user"
    /\ reqs[r1].status = 403
    /\ reqs[r2].kind = "POST /api/auth/login" /\ reqs[r2].user.role = "user"
    /\ reqs[r2].status = 200 /\ admins[1].lastLogin > 1

\* C13: the updateClient / updateInteraction step on a stored row sets every
\* field named in the partial input to the input's value, sets updatedAt to
\* the time of the write even when the input names updatedAt, keeps every
\* other field of the row, and leaves every other row alone.
C13_UpdateFrame ==
  [][\A r \in Requests :
       /\ (reqs[r].pc = "updateClient" /\ reqs'[r].pc # "updateClient"
            /\ reqs[r].id \in DOMAIN clients) =>
            LET id == reqs[r].id
                data == reqs[r].body
            IN /\ DOMAIN clients' = DOMAIN clients
               /\ \A i \in DOMAIN clients : i # id => clients'[i] = clients[i]
               /\ \A f \in DOMAIN clients[id] :
                    clients'[id][f] =
                      IF f = "updatedAt" THEN reqs[r].ts
                      ELSE IF f \in DOMAIN data THEN data[f] ELSE clients[id][f]
       /\ (reqs[r].pc = "updateInteraction" /\ reqs'[r].pc # "updateInteraction"
            /\ reqs[r].id \in DOMAIN interactions) =>
            LET id == reqs[r].id
                data == reqs[r].body
            IN /\ DOMAIN interactions' = DOMAIN interactions
               /\ \A i \in DOMAIN interactions : i # id => interactions'[i] = interactions[i]
               /\ \A f \in DOMAIN interactions[id] :
                    interactions'[id][f] =
                      IF f = "updatedAt" THEN reqs[r].ts
                      ELSE IF f \in DOMAIN data THEN data[f] ELSE interactions[id][f]]_vars

C13_Witness ==
  \E r1, r2 \in Requests :
    /\ reqs[r1].kind = "PUT /api/interactions/:id" /\ reqs[r1].wroteAt > 0
    /\ "updatedAt" \in DOMAIN reqs[r1].body /\ reqs[r1].body.updatedAt = 0
    /\ interactions[1].title = "t2" /\ interactions[1].description = "d"
    /\ interactions[1].updatedAt = reqs[r1].ts /\ reqs[r1].ts > 4
    /\ reqs[r2].kind = "PUT /api/clients/:id" /\ reqs[r2].wroteAt > 0
    /\ reqs[r2].body = [phone |-> "222", updatedAt |-> 0]
    /\ clients[1].phone = "222" /\ clients[1].email = "c@x.com"
    /\ clients[1].updatedAt = reqs[r2].ts

\* two requests PUT /api/clients/:id on the same client, naming disjoint fields
ConcurrentPuts(r1, r2) ==
  /\ r1 # r2
  /\ reqs[r1].kind = "PUT /api/clients/:id" /\ reqs[r2].kind = "PUT /api/clients/:id"
  /\ reqs[r1].id = reqs[r2].id
  /\ (DOMAIN reqs[r1].body) \cap (DOMAIN reqs[r2].body) = {}

\* C14: when two requests PUT /api/clients/:id on the same stored client
\* with disjoint fields are the only requests and both have finished without
\* a store failure, both were answered 200, the row carries the fields of
\* both (updatedAt apart), its updatedAt is the one written by the request
\* whose write was applied last, and each request has one 'update' audit row.
C14_NoLostUpdate ==
  \A r1, r2 \in Requests :
    (/\ Len(reqs) = 2 /\ ConcurrentPuts(r1, r2)
     /\ Done(reqs[r1]) /\ Done(reqs[r2])
     /\ ~reqs[r1].auditFailed /\ ~reqs[r2].auditFailed) =>
      LET row == clients[reqs[r1].id] IN
      /\ reqs[r1].status = 200 /\ reqs[r2].status = 200
      /\ \A r \in {r1, r2} : \A f \in (DOMAIN reqs[r].body) \ {"updatedAt"} :
           row[f] = reqs[r].body[f]
      /\ reqs[r1].wroteAt > reqs[r2].wroteAt => row.updatedAt = reqs[r1].ts
      /\ \A r \in {r1, r2} :
           /\ Cardinality(AuditRowsOf(r)) = 1
           /\ \A i \in AuditRowsOf(r) :
                auditLogs[i].action = "update" /\ auditLogs[i].entityType = "client"
                  /\ auditLogs[i].entityId = reqs[r].id

\* the two writes were issued in one order and applied in the other
C14_Witness ==
  \E r1, r2 \in Requests :
    /\ Len(reqs) = 2 /\ ConcurrentPuts(r1, r2)
    /\ Done(reqs[r1]) /\ Done(reqs[r2])
    /\ reqs[r1].status = 200 /\ reqs[r2].status = 200
    /\ reqs[r1].ts < reqs[r2].ts /\ reqs[r1].wroteAt > reqs[r2].wroteAt
    /\ clients[1].email = "b@x.com" /\ clients[1].phone = "222"
    /\ clients[1].updatedAt = reqs[r1].ts

MalformedEmails == {"not-an-email"}

\* ghost: the input of a create or update request breaks a rule the
\* specification puts on it (required field, enum value, email format)
InvalidInput(q) ==
  \/ /\ q.kind = "POST /api/clients"
     /\ ~({"email", "phone"} \subseteq DOMAIN q.raw)
  \/ /\ q.kind \in {"POST /api/clients", "PUT /api/clients/:id"}
     /\ "email" \in DOMAIN q.raw /\ q.raw.email \in MalformedEmails
  \/ /\ q.kind = "POST /api/clients/:clientId/interactions"
     /\ ~({"type", "title", "description"} \subseteq DOMAIN q.raw)
  \/ /\ q.kind \in {"POST /api/clients/:clientId/interactions", "PUT /api/interactions/:id"}
     /\ "type" \in DOMAIN q.raw /\ q.raw.type \notin interactionTypeEnum

\* C17: a create or update request whose input is invalid never writes an
\* entity row, never gets an audit row, and is answered 400.
C17_InvalidInputRejected ==
  \A r \in Requests :
    (InvalidInput(reqs[r]) /\ reqs[r].user # NoUser) =>
      /\ reqs[r].wroteAt = 0
      /\ AuditRowsOf(r) = {}
      /\ Done(reqs[r]) => reqs[r].status = 400

\* C18: the step that stores a client or an interaction created through the
\* API gives the new row the session's user id as createdBy, and gives a new
\* interaction the clientId of the URL, whatever the request body named.
C18_CreatorFromSession ==
  [][\A r \in Requests :
       /\ (reqs[r].pc = "createClient" /\ reqs'[r].pc = "createAuditLog") =>
            clients'[reqs'[r].id].createdBy = reqs[r].user.id
       /\ (reqs[r].pc = "createInteraction" /\ reqs'[r].pc = "createAuditLog") =>
            /\ interactions'[reqs'[r].id].createdBy = reqs[r].user.id
            /\ interactions'[reqs'[r].id].clientId = reqs[r].id]_vars

C18_Witness ==
  \E r1, r2 \in Requests :
    /\ reqs[r1].kind = "POST /api/clients/:clientId/interactions"
    /\ reqs[r1].status = 201
    /\ reqs[r1].raw.clientId = 2 /\ reqs[r1].raw.createdBy = 2
    /\ interactions[reqs[r1].id].clientId = 1 /\ interactions[reqs[r1].id].createdBy = 1
    /\ reqs[r2].kind = "POST /api/clients"
    /\ reqs[r2].status = 201
    /\ "createdBy" \in DOMAIN reqs[r2].raw /\ reqs[r2].raw.createdBy = 2
    /\ clients[reqs[r2].id].createdBy = 1

\* C15: a bootstrap that finds no Admin row creates exactly one, with role
\* 'admin' and active; a bootstrap that finds at least one Admin row (active
\* or not) leaves the admins table as it is; so every bootstrap after the
\* first one creates nothing.
C15_BootstrapIdempotent ==
  [][\A r \in Requests :
       reqs[r].kind = "bootstrap" =>
         /\ (reqs[r].pc = "bootListAdmins" /\ reqs'[r].pc = "done") =>
              (DOMAIN admins # {} /\ admins' = admins)
         /\ (reqs[r].pc = "bootListAdmins" /\ reqs'[r].pc = "bootCreateAdmin") =>
              (DOMAIN admins = {} /\ admins' = admins /\ r = 1)
         /\ (reqs[r].pc = "bootCreateAdmin" /\ reqs'[r].pc = "done") =>
              /\ DOMAIN admins = {}
              /\ Cardinality(DOMAIN admins') = 1
              /\ \A i \in DOMAIN admins' :
                   admins'[i].role = "admin" /\ admins'[i].active]_vars

\* a second bootstrap has run on a store whose only admin, the seeded one,
\* was deactivated in between
C15_Witness ==
  \E r1, r2 \in Requests :
    /\ r1 < r2
    /\ reqs[r1].kind = "bootstrap" /\ reqs[r1].wroteAt > 0
    /\ reqs[r2].kind = "bootstrap" /\ reqs[r2].pc = "done" /\ reqs[r2].wroteAt = 0
    /\ DOMAIN admins = {1} /\ admins[1].username = "admin" /\ ~admins[1].active
\* C16: no two Admin rows carry the same username; a createAdmin or
\* updateAdmin step whose row would repeat a stored username raises, leaves
\* the admins table as it was, and its request gets no audit row.
C16_UsernameUnique ==
  [][/\ \A i, j \in DOMAIN admins' :
          admins'[i].username = admins'[j].username => i = j
     /\ \A r \in Requests :
          /\ (reqs[r].pc = "createAdmin" /\ reqs'[r].pc # "createAdmin"
               /\ UsernameTaken(admins, reqs[r].body.username, 0)) =>
               (admins' = admins /\ reqs'[r].pc = "done" /\ reqs'[r].status = 500)
          /\ (reqs[r].pc = "updateAdmin" /\ reqs'[r].pc # "updateAdmin"
               /\ reqs[r].id \in DOMAIN admins /\ "username" \in DOMAIN reqs[r].body
               /\ UsernameTaken(admins, reqs[r].body.username, reqs[r].id)) =>
               (admins' = admins /\ reqs'[r].pc = "done" /\ reqs'[r].status = 500)
          /\ (reqs'[r].kind \in AdminKinds /\ reqs'[r].status = 500) =>
               \A i \in 1..Len(auditLogs') : auditLogs'[i].req # r]_vars

\* two concurrent creations of the same username: one stored, one refused
C16_Witness ==
  \E r1, r2 \in Requests :
    /\ r1 # r2
    /\ reqs[r1].kind = "POST /api/admins" /\ reqs[r2].kind = "POST /api/admins"
    /\ reqs[r1].raw.username = "carol" /\ reqs[r2].raw.username = "carol"
    /\ reqs[r1].wroteAt > 0
    /\ reqs[r2].status = 500 /\ reqs[r2].wroteAt = 0 /\ AuditRowsOf(r2) = {}
    /\ Cardinality({i \in DOMAIN admins : admins[i].username = "carol"}) = 1

\* the plaintexts that occur as passwords in the inputs
Plaintexts == {"", "admin123", "secret1", "newpass1", "wrong99"}

IsHash(stored) == \E plain \in Plaintexts : stored = Hash(plain)

\* C19: the stored password of every Admin is the hash of a plaintext; an
\* updateAdmin step whose input names a password stores its hash, and one
\* whose input names none leaves the stored password as it was.
C19_PasswordsHashed ==
  [][/\ \A i \in DOMAIN admins' : IsHash(admins'[i].password)
     /\ \A r \in Requests :
          (reqs[r].pc = "updateAdmin" /\ reqs'[r].pc = "createAuditLog") =>
            admins'[reqs[r].id].password =
              IF "password" \in DOMAIN reqs[r].body
                THEN Hash(reqs[r].body.password)
                ELSE admins[reqs[r].id].password]_vars

\* C20: no response body of the admin routes has a password field, and the
\* identity answered by login and by GET /api/auth/user has exactly the
\* fields id, username and role.
C20_NoPasswordInResponses ==
  \A r \in Requests :
    /\ reqs[r].kind \in AdminKinds =>
         \A a \in reqs[r].json : "password" \notin DOMAIN a
    /\ reqs[r].kind \in {"POST /api/auth/login", "GET /api/auth/user"} =>
         \A u \in reqs[r].json : DOMAIN u = {"id", "username", "role"}

C20_Witness ==
  \E r2, r3 \in Requests :
    /\ reqs[r2].kind = "PUT /api/admins/:id" /\ reqs[r2].status = 200
    /\ \E a \in reqs[r2].json : a.id = reqs[r2].id /\ "username" \in DOMAIN a
    /\ reqs[r3].kind = "POST /api/auth/login" /\ reqs[r3].status = 200
    /\ reqs[r3].json = {[id |-> 1, username |-> "admin", role |-> "admin"]}

\* C21: every step leaves every stored audit row in place and unchanged;
\* the audit log only grows at its end, also in the step that deletes the
\* client or interaction a row refers to.
C21_AuditAppendOnly ==
  [][/\ Len(auditLogs') >= Len(auditLogs)
     /\ \A i \in 1..Len(auditLogs) : auditLogs'[i] = auditLogs[i]]_vars

\* client 1 and its interaction are gone, their 'create' rows are still
\* stored, and the 'delete' row was appended after them
C21_Witness ==
  /\ 1 \notin DOMAIN clients /\ 1 \notin DOMAIN interactions
  /\ Len(auditLogs) = 3
  /\ auditLogs[1].entityType = "client" /\ auditLogs[1].entityId = 1
  /\ auditLogs[1].action = "create"
  /\ auditLogs[2].entityType = "interaction" /\ auditLogs[2].action = "create"
  /\ auditLogs[3].entityType = "client" /\ auditLogs[3].entityId = 1
  /\ auditLogs[3].action = "delete"

TargetedKinds ==
  {"PUT /api/clients/:id", "DELETE /api/clients/:id", "PUT /api/interactions/:id",
   "DELETE /api/interactions/:id", "PUT /api/admins/:id"}

\* C22: a PUT or DELETE whose target row did not exist when its write was
\* applied gets no audit row, and is answered 404.
C22_MissingTargetNotFound ==
  \A r \in Requests :
    (reqs[r].kind \in TargetedKinds /\ reqs[r].missed) =>
      /\ AuditRowsOf(r) = {}
      /\ Done(reqs[r]) => reqs[r].status = 404

\* C23: a login whose credentials passed all checks of the strategy and
\* whose lastLogin write then failed is answered 200 and its cookie's
\* session carries the verified identity.
C23_LastLoginBestEffort ==
  \A r \in Requests :
    (reqs[r].kind = "POST /api/auth/login" /\ Done(reqs[r])
       /\ reqs[r].verified # NoUser /\ reqs[r].cause = "store") =>
      reqs[r].status = 200

\* C24: every audit row written by a request handler carries the id of the
\* user of that request's session, which is never absent, and that id is
\* the id of a stored Admin row, whether or not that admin is active.
C24_AuditActorResolves ==
  \A i \in 1..Len(auditLogs) :
    LET r == auditLogs[i].req IN
    r \in Requests =>
      /\ reqs[r].user # NoUser
      /\ auditLogs[i].adminId = reqs[r].user.id
      /\ auditLogs[i].adminId \in DOMAIN admins
      /\ admins[auditLogs[i].adminId].id = auditLogs[i].adminId

\* the seeded admin deactivated their own row; the audit row of that update
\* still names them
C24_Witness ==
  \E i \in 1..Len(auditLogs) :
    /\ auditLogs[i].adminId = 1 /\ auditLogs[i].entityType = "admin"
    /\ auditLogs[i].action = "update" /\ auditLogs[i].entityId = 1
    /\ 1 \in DOMAIN admins /\ ~admins[1].active

(***************************************************************************)
(* C25: listClients ordering                                               *)
(***************************************************************************)
\* the requests that have written a client row, and the last of them
ClientWriters == {w \in Requests : reqs[w].mutation.entityType = "client" /\ reqs[w].wroteAt > 0}

LastClientWriter(w) ==
  w \in ClientWriters /\ \A v \in ClientWriters : reqs[v].wroteAt <= reqs[w].wroteAt

\* the listing a request GET /api/clients is answered with in this step
Listed(r) ==
  /\ r \in Requests /\ reqs[r].kind = "GET /api/clients"
  /\ reqs[r].pc = "listClients" /\ reqs'[r].pc = "done"

SortedDesc(rowSeq, key) ==
  \A i, j \in 1..Len(rowSeq) : i < j => rowSeq[i][key] >= rowSeq[j][key]

ListLimits == {1, 2, DefaultLimit}

\* listClients returns stored rows, each once, by updatedAt descending, as
\* many as the limit allows
ListClientsOrdered(clientTable) ==
  \A limit \in ListLimits : \A rowSeq \in listClients(clientTable, limit) :
    /\ Len(rowSeq) = IF limit < Cardinality(DOMAIN clientTable)
                       THEN limit ELSE Cardinality(DOMAIN clientTable)
    /\ SortedDesc(rowSeq, "updatedAt")
    /\ \A i \in 1..Len(rowSeq) :
         /\ rowSeq[i].id \in DOMAIN clientTable /\ rowSeq[i] = clientTable[rowSeq[i].id]
         /\ \A j \in 1..Len(rowSeq) : rowSeq[i].id = rowSeq[j].id => i = j

\* C25 as stated: listClients() is ordered by updatedAt descending and holds
\* at most the limit; when the last write to the clients table was a
\* successful updateClient(id), a listing taken then has that client first.
C25_LastUpdatedListedFirst ==
  [][\A r \in Requests : Listed(r) =>
       /\ ListClientsOrdered(clients)
       /\ reqs'[r].list \in listClients(clients, DefaultLimit)
       /\ \A w \in Requests :
            (LastClientWriter(w) /\ reqs[w].mutation.action = "update") =>
              reqs'[r].list[1].id = reqs[w].id]_vars

(***************************************************************************)
(* C26: sessions and later changes of the admin row                        *)
(***************************************************************************)
\* the request received in this step
Received(r) == r = Len(reqs') /\ Len(reqs') = Len(reqs) + 1

\* C26: a session changes only when a login on its cookie completes, and it
\* then holds the identity read at that login; in particular no write to the
\* admins table changes a session. A request carries the user of its session
\* as it was stored at login, and requireAuth / requireAdmin decide on that
\* user alone: they pass a session whose admin row has since been deactivated
\* or demoted, with the role of the login.
C26_SessionIsLoginSnapshot ==
  [][/\ admins' # admins => sessions' = sessions
     /\ \A c \in Cookies : sessions'[c] # sessions[c] =>
          \E r \in Requests :
            /\ reqs[r].kind = "POST /api/auth/login" /\ reqs[r].cookie = c
            /\ reqs[r].pc = "logIn" /\ reqs'[r].pc = "done"
            /\ sessions'[c] = reqs[r].verified
     /\ \A r \in 1..Len(reqs') :
          (Received(r) /\ reqs'[r].kind \in AdminKinds) =>
            LET q == reqs'[r] IN
            /\ q.user = sessions[q.cookie]
            /\ q.status = 401 <=> q.user = NoUser
            /\ q.status = 403 <=> (q.user # NoUser /\ q.user.role # "admin")]_vars

\* the seeded admin was demoted after logging in, and the session of that
\* login then created an admin
C26_Witness ==
  \E r \in Requests :
    /\ reqs[r].kind = "POST /api/admins" /\ reqs[r].stale
    /\ reqs[r].user.id = 1 /\ reqs[r].user.role = "admin"
    /\ reqs[r].status = 201
    /\ 1 \in DOMAIN admins /\ admins[1].role = "user"

(***************************************************************************)
(* C27: two deletes of one row                                             *)
(***************************************************************************)
DeleteKinds == {"DELETE /api/clients/:id", "DELETE /api/interactions/:id"}

\* two requests DELETE of the same kind on the same row, stored at the start
ConcurrentDeletes(r1, r2) ==
  /\ r1 # r2
  /\ reqs[r1].kind \in DeleteKinds /\ reqs[r2].kind = reqs[r1].kind
  /\ reqs[r1].id = 1 /\ reqs[r2].id = 1

DeleteRows(kind, id) ==
  {i \in 1..Len(auditLogs) :
     /\ auditLogs[i].action = "delete" /\ auditLogs[i].entityId = id
     /\ auditLogs[i].entityType = Route(kind).entityType}

\* C27: when two requests DELETE for the same stored client (or the same
\* stored interaction) are the only requests and both have finished without
\* a failure of the audit write, exactly one was answered with success, the
\* other with 404 or 500, and exactly one 'delete' audit row for the entity
\* exists; the request whose delete removed no row after it had passed the
\* existence check was answered 500 and has no audit row.
C27_OneDeleteWins ==
  \A r1, r2 \in Requests :
    (/\ Len(reqs) = 2 /\ ConcurrentDeletes(r1, r2)
     /\ Done(reqs[r1]) /\ Done(reqs[r2])
     /\ ~reqs[r1].auditFailed /\ ~reqs[r2].auditFailed) =>
      /\ Success(reqs[r1]) # Success(reqs[r2])
      /\ \A r \in {r1, r2} : ~Success(reqs[r]) => reqs[r].status \in {404, 500}
      /\ Cardinality(DeleteRows(reqs[r1].kind, 1)) = 1
      /\ \A r \in {r1, r2} :
           /\ Success(reqs[r]) => Cardinality(AuditRowsOf(r)) = 1
           /\ reqs[r].missed => reqs[r].status = 500 /\ AuditRowsOf(r) = {}

\* both requests passed the existence check before either delete was applied
C27_Witness ==
  \E r1, r2 \in Requests :
    /\ Len(reqs) = 2 /\ ConcurrentDeletes(r1, r2)
    /\ reqs[r1].kind = "DELETE /api/clients/:id"
    /\ Done(reqs[r1]) /\ Done(reqs[r2])
    /\ reqs[r1].status = 200 /\ reqs[r2].status = 500 /\ reqs[r2].missed
    /\ 1 \notin DOMAIN clients
    /\ Cardinality(DeleteRows(reqs[r1].kind, 1)) = 1

(***************************************************************************)
(* C28: the body of an update                                              *)
(***************************************************************************)
PutKinds == {"PUT /api/clients/:id", "PUT /api/interactions/:id"}

\* C28: PUT /api/clients/:id and PUT /api/interactions/:id hand the body to
\* the store as it was sent: no such request is answered 400, every session
\* with a user reaches the store, and when the update is applied the row
\* holds every field named in the body, updatedAt apart, which is the write
\* time; so createdBy and an interaction's clientId change with the body.
C28_UpdateBodyUnfiltered ==
  [][\A r \in 1..Len(reqs') : reqs'[r].kind \in PutKinds =>
       LET q == reqs'[r] IN
       /\ q.body = q.raw /\ q.status # 400
       /\ q.user # NoUser => q.status \notin {401, 403}
       /\ (r \in Requests /\ reqs[r].pc = "updateClient" /\ q.wroteAt > 0) =>
            /\ \A f \in (DOMAIN q.raw) \ {"updatedAt"} : clients'[q.id][f] = q.raw[f]
            /\ clients'[q.id].updatedAt = q.ts
       /\ (r \in Requests /\ reqs[r].pc = "updateInteraction" /\ q.wroteAt > 0) =>
            /\ \A f \in (DOMAIN q.raw) \ {"updatedAt"} : interactions'[q.id][f] = q.raw[f]
            /\ interactions'[q.id].updatedAt = q.ts]_vars

\* the session of bob, who has role user and created nothing, moved
\* interaction 1 to another client and made himself its creator
C28_Witness ==
  \E r \in Requests :
    /\ reqs[r].kind = "PUT /api/interactions/:id" /\ reqs[r].status = 200
    /\ reqs[r].user.id = 2 /\ reqs[r].user.role = "user"
    /\ reqs[r].raw = [clientId |-> 2, createdBy |-> 2]
    /\ interactions[1].clientId = 2 /\ interactions[1].createdBy = 2
    /\ interactions[1].title = "t0"

(***************************************************************************)
(* C29: failed logins                                                      *)
(***************************************************************************)
\* the login request that is received or moves on in this step
LoginStep(r) ==
  /\ r \in 1..Len(reqs') /\ reqs'[r].kind = "POST /api/auth/login"
  /\ r \in Requests => reqs'[r] # reqs[r]

\* C29: a login answered 400 or 401 has changed nothing: in every step of a
\* login request but the lastLogin write and the session write of a login
\* that passed the checks, admins, sessions, audit log, clients and
\* interactions stay as they are, and no login step appends an audit row.
\* lastLogin is written only for the admin that the request names, that is
\* active and whose password matches, and nothing else of the row changes.
C29_FailedLoginChangesNothing ==
  [][\A r \in 1..Len(reqs') : LoginStep(r) =>
       LET q == reqs'[r] IN
       /\ auditLogs' = auditLogs /\ clients' = clients /\ interactions' = interactions
       /\ q.status \in {400, 401} =>
            /\ admins' = admins /\ sessions' = sessions
            /\ q.wroteAt = 0 /\ q.verified = NoUser
       /\ sessions' # sessions => (reqs[r].pc = "logIn" /\ q.status = 200)
       /\ admins' # admins =>
            /\ reqs[r].pc = "updateLastLogin" /\ q.pc = "logIn"
            /\ LET id == q.verified.id IN
               /\ id \in DOMAIN admins
               /\ admins[id].username = q.body.username
               /\ admins[id].active
               /\ validatePassword(q.body.password, admins[id].password)
               /\ admins' = [admins EXCEPT ![id].lastLogin = admins'[id].lastLogin]]_vars

\* logins failed for each of the four reasons, and one login passed the
\* checks and wrote lastLogin
C29_Witness ==
  /\ \E r \in Requests : reqs[r].kind = "POST /api/auth/login" /\ reqs[r].status = 400
  /\ \E r \in Requests : reqs[r].cause \in {"absent", "inactive", "mismatch"}
                           /\ reqs[r].status = 401
  /\ \E r \in Requests : reqs[r].kind = "POST /api/auth/login" /\ reqs[r].status = 200
                           /\ admins[reqs[r].verified.id].lastLogin > 1

(***************************************************************************)
(* C30: audit rows of a deleted client                                     *)
(***************************************************************************)
\* C30: the step that deletes a client leaves every audit row in the store;
\* a request GET /api/clients/:clientId/audit-logs whose existence check
\* runs when the client is gone is answered 404 without rows, and a deleted
\* client stays gone; GET /api/audit-logs answers with the stored rows by
\* createdAt descending, the newest 100 at most, among them the rows of
\* deleted clients.
C30_DeletedClientAuditRows ==
  [][/\ \A id \in DOMAIN clients : id \notin DOMAIN clients' =>
          \A i \in 1..Len(auditLogs) : i <= Len(auditLogs') /\ auditLogs'[i] = auditLogs[i]
     /\ \A id \in 1..serial.clients : id \notin DOMAIN clients => id \notin DOMAIN clients'
     /\ \A r \in Requests :
          /\ (/\ reqs[r].kind = "GET /api/clients/:clientId/audit-logs"
              /\ reqs[r].pc = "getClient" /\ reqs'[r] # reqs[r]
              /\ reqs[r].id \notin DOMAIN clients) =>
               reqs'[r].status = 404 /\ reqs'[r].pc = "done" /\ reqs'[r].list = <<>>
          /\ (/\ reqs[r].kind = "GET /api/audit-logs"
              /\ reqs[r].pc = "listAuditLogs" /\ reqs'[r].pc = "done") =>
               LET rowSeq == reqs'[r].list IN
               /\ reqs'[r].status = 200
               /\ Len(rowSeq) = IF DefaultLimit < Len(auditLogs)
                                  THEN DefaultLimit ELSE Len(auditLogs)
               /\ SortedDesc(rowSeq, "createdAt")
               /\ \A i \in 1..Len(rowSeq) : rowSeq[i] = auditLogs[rowSeq[i].id]
               /\ Len(auditLogs) <= DefaultLimit =>
                    \A i \in 1..Len(auditLogs) : \E j \in 1..Len(rowSeq) : rowSeq[j] = auditLogs[i]
     /\ \A limit \in ListLimits : \A rowSeq \in listAuditLogs(auditLogs, limit) :
          /\ Len(rowSeq) = IF limit < Len(auditLogs) THEN limit ELSE Len(auditLogs)
          /\ SortedDesc(rowSeq, "createdAt")]_vars

\* client 1 was deleted; after that its audit log was asked for and refused,
\* and the full log was listed with the 'delete' row first and the 'create'
\* row of the client in it
C30_Witness ==
  \E d, g, a \in Requests :
    /\ reqs[d].kind = "DELETE /api/clients/:id" /\ reqs[d].status = 200
    /\ 1 \notin DOMAIN clients
    /\ reqs[g].kind = "GET /api/clients/:clientId/audit-logs" /\ reqs[g].id = 1
    /\ reqs[g].status = 404
    /\ reqs[a].kind = "GET /api/audit-logs" /\ reqs[a].status = 200
    /\ Len(reqs[a].list) = 3
    /\ reqs[a].list[1].action = "delete" /\ reqs[a].list[1].entityType = "client"
    /\ reqs[a].list[1].entityId = 1
    /\ \E j \in 1..3 : reqs[a].list[j].action = "create" /\ reqs[a].list[j].entityType = "client"
                          /\ reqs[a].list[j].entityId = 1

====
